---- MODULE Spec2Model ----
(***************************************************************************)
(* A model of locate-cargo-manifest (src/lib.rs): the single function      *)
(* locate_manifest, its error type LocateManifestError, and the child      *)
(* process `cargo locate-project` it runs.                                 *)
(*                                                                         *)
(* Bytes of the child's standard output are modelled at the granularity of *)
(* JSON lexemes: one element of the sequence is one punctuation character, *)
(* one whitespace run, one string literal (with its content), one scalar   *)
(* literal, one character that starts no JSON value, or one byte that is   *)
(* not valid UTF-8.  Strings are sequences of characters.                  *)
(***************************************************************************)
EXTENDS Naturals, Sequences, FiniteSets, TLC

VARIABLES
    env,        \* the value of the CARGO environment variable
    pc,         \* position of the (single) caller inside locate_manifest
    cargo,      \* local `cargo` (line 20)
    spawnLog,   \* the spawn attempts made by the current call: <<[prog, args]>>
    child,      \* the child process: [state, ok]
    childOut,   \* everything the child has written to its standard output
    childErr,   \* everything the child has written to its standard error
    outputRes,  \* the io::Result<process::Output> of `.output()` (line 23)
    decoded,    \* the Result of String::from_utf8 (line 30)
    parsed,     \* the Result of json::parse (line 31)
    result,     \* the value last returned to the caller
    checks,     \* the failure checks the current call has evaluated, in order
    memo        \* observer: the inputs and the result of one earlier call

vars == <<env, pc, cargo, spawnLog, child, childOut, childErr, outputRes,
          decoded, parsed, result, checks, memo>>

-----------------------------------------------------------------------------
(* Bounds *)

\* longest standard output (in lexemes) enumerated exhaustively by SpecPure
MaxTok == 5

-----------------------------------------------------------------------------
(* Values *)

Unset == [unset |-> TRUE]
Ok(v) == [ok |-> TRUE, val |-> v]
Err(e) == [ok |-> FALSE, err |-> e]
Some(v) == [some |-> TRUE, val |-> v]
NoneOpt == [some |-> FALSE]

\* lexemes of the child's standard output
Tok(t) == [t |-> t, s |-> <<>>]
StrTok(s) == [t |-> "str", s |-> s]
LB == Tok("lbrace")
RB == Tok("rbrace")
LBK == Tok("lbrack")
RBK == Tok("rbrack")
COLON == Tok("colon")
COMMA == Tok("comma")
WS == Tok("ws")
NUM == Tok("num")
NULLTOK == Tok("null")
TRUETOK == Tok("true")
JUNK == Tok("junk")
BAD == Tok("bad")

\* string contents
RootKey == <<"r", "o", "o", "t">>
OtherKey == <<"o", "t", "h", "e", "r">>
PathA == <<"/", "x", "/", "C", "a", "r", "g", "o", ".", "t", "o", "m", "l">>
PathB == <<" ", "/", "a", "/", ".", ".", "/", "b", "/", " ">>

-----------------------------------------------------------------------------
(* The CARGO environment variable and the executable name (line 20) *)

DefaultCargo == "cargo"
StubCargo == "/stub/cargo"

EnvAbsent == [kind |-> "absent", val |-> ""]
EnvUnicode(v) == [kind |-> "unicode", val |-> v]
\* a value that is not valid Unicode (possible on every platform Rust supports)
EnvNotUnicode == [kind |-> "notunicode", val |-> "/stub/\\xFF/cargo"]
EnvValues == {EnvAbsent, EnvUnicode(""), EnvUnicode(DefaultCargo),
              EnvUnicode(StubCargo), EnvNotUnicode}

\* env::var: Ok only for a variable that is present and valid Unicode
EnvVar(e) ==
    CASE e.kind = "unicode" -> Ok(e.val)
      [] e.kind = "absent" -> Err([ty |-> "VarError", what |-> "NotPresent"])
      [] OTHER -> Err([ty |-> "VarError", what |-> "NotUnicode"])

UnwrapOr(r, d) == IF r.ok THEN r.val ELSE d

\* variant: an empty value is taken for an absent one
ResolveCargoEmptyIsAbsent(e) ==
    IF EnvVar(e).ok /\ EnvVar(e).val # "" THEN EnvVar(e).val ELSE DefaultCargo

\* variant: unwrap_or_default in place of unwrap_or("cargo")
ResolveCargoOrDefault(e) == UnwrapOr(EnvVar(e), "")

ResolveCargo(e) == UnwrapOr(EnvVar(e), DefaultCargo)

LocateProjectArgs == <<"locate-project">>

-----------------------------------------------------------------------------
(* LocateManifestError (lines 38-52), its source() and the From impls *)

IoError(code) == [ty |-> "io::Error", what |-> code]

FromIo(e) == [kind |-> "Io", cause |-> e]
FromUtf8Err(e) == [kind |-> "StringConversion", cause |-> e]
FromJsonErr(e) == [kind |-> "ParseJson", cause |-> e]
\* variant: the payload is the lossy decoding that Display prints
CargoExecutionLossy(bytes) ==
    [kind |-> "CargoExecution",
     stderr |-> [n \in 1..Len(bytes) |-> IF bytes[n] = "xFF" THEN "uFFFD" ELSE bytes[n]]]

CargoExecution(bytes) == [kind |-> "CargoExecution", stderr |-> bytes]
NoRoot == [kind |-> "NoRoot"]

ErrorKinds == {"Io", "CargoExecution", "StringConversion", "ParseJson", "NoRoot"}

\* variant: the StringConversion arm answers None
SourceNoUtf8(e) ==
    CASE e.kind = "Io" -> Some(e.cause)
      [] e.kind = "ParseJson" -> Some(e.cause)
      [] OTHER -> NoneOpt

Source(e) ==
    CASE e.kind = "Io" -> Some(e.cause)
      [] e.kind = "CargoExecution" -> NoneOpt
      [] e.kind = "StringConversion" -> Some(e.cause)
      [] e.kind = "ParseJson" -> Some(e.cause)
      [] e.kind = "NoRoot" -> NoneOpt

-----------------------------------------------------------------------------
(* String::from_utf8 (line 30) *)

RECURSIVE ValidUpTo(_, _)
\* the number of leading elements of bytes, from position i on, that are valid
ValidUpTo(bytes, i) ==
    IF i > Len(bytes) \/ bytes[i].t = "bad" THEN i - 1 ELSE ValidUpTo(bytes, i + 1)

StringFromUtf8(bytes) ==
    IF ValidUpTo(bytes, 1) = Len(bytes)
    THEN Ok(bytes)
    ELSE Err([ty |-> "FromUtf8Error", bytes |-> bytes,
              valid_up_to |-> ValidUpTo(bytes, 1)])

-----------------------------------------------------------------------------
(* json::parse (line 31), JsonValue indexing and as_str (line 32) *)

JString(s) == [t |-> "string", s |-> s]
JNumber == [t |-> "number"]
JNull == [t |-> "null"]
JBool == [t |-> "boolean"]
JArray(items) == [t |-> "array", items |-> items]
JObject(members) == [t |-> "object", members |-> members]

JsonFail(what, i) == [ok |-> FALSE, err |-> [ty |-> "json::Error", what |-> what, at |-> i]]
JsonOk(v, n) == [ok |-> TRUE, val |-> v, next |-> n]

Unexpected(toks, i) ==
    IF i > Len(toks) THEN JsonFail("UnexpectedEndOfJson", i)
    ELSE JsonFail("UnexpectedCharacter", i)

RECURSIVE SkipWs(_, _)
SkipWs(toks, i) ==
    IF i <= Len(toks) /\ toks[i].t = "ws" THEN SkipWs(toks, i + 1) ELSE i

At(toks, i, t) == i <= Len(toks) /\ toks[i].t = t

\* Object::insert: a key already present keeps its place and gets the new value
ObjInsert(members, k, v) ==
    IF \E n \in 1..Len(members) : members[n].k = k
    THEN [n \in 1..Len(members) |->
            IF members[n].k = k THEN [k |-> k, v |-> v] ELSE members[n]]
    ELSE Append(members, [k |-> k, v |-> v])

RECURSIVE ParseValue(_, _), ParseMembers(_, _, _), ParseElements(_, _, _)

ParseValue(toks, i0) ==
    LET i == SkipWs(toks, i0) IN
    IF i > Len(toks) THEN Unexpected(toks, i)
    ELSE CASE toks[i].t = "str" -> JsonOk(JString(toks[i].s), i + 1)
           [] toks[i].t = "num" -> JsonOk(JNumber, i + 1)
           [] toks[i].t = "null" -> JsonOk(JNull, i + 1)
           [] toks[i].t = "true" -> JsonOk(JBool, i + 1)
           [] toks[i].t = "lbrace" ->
                LET j == SkipWs(toks, i + 1) IN
                IF At(toks, j, "rbrace") THEN JsonOk(JObject(<<>>), j + 1)
                ELSE ParseMembers(toks, j, <<>>)
           [] toks[i].t = "lbrack" ->
                LET j == SkipWs(toks, i + 1) IN
                IF At(toks, j, "rbrack") THEN JsonOk(JArray(<<>>), j + 1)
                ELSE ParseElements(toks, j, <<>>)
           [] OTHER -> Unexpected(toks, i)

\* toks[i] is where a key must start (whitespace already skipped)
ParseMembers(toks, i, acc) ==
    IF ~At(toks, i, "str") THEN Unexpected(toks, i)
    ELSE LET c == SkipWs(toks, i + 1) IN
         IF ~At(toks, c, "colon") THEN Unexpected(toks, c)
         ELSE LET r == ParseValue(toks, c + 1) IN
              IF ~r.ok THEN r
              ELSE LET acc2 == ObjInsert(acc, toks[i].s, r.val)
                       n == SkipWs(toks, r.next)
                   IN  IF At(toks, n, "comma")
                       THEN ParseMembers(toks, SkipWs(toks, n + 1), acc2)
                       ELSE IF At(toks, n, "rbrace")
                       THEN JsonOk(JObject(acc2), n + 1)
                       ELSE Unexpected(toks, n)

\* toks[i] is where an element must start
ParseElements(toks, i, acc) ==
    LET r == ParseValue(toks, i) IN
    IF ~r.ok THEN r
    ELSE LET acc2 == Append(acc, r.val)
             n == SkipWs(toks, r.next)
         IN  IF At(toks, n, "comma")
             THEN ParseElements(toks, n + 1, acc2)
             ELSE IF At(toks, n, "rbrack")
             THEN JsonOk(JArray(acc2), n + 1)
             ELSE Unexpected(toks, n)

\* json::parse: one value, then nothing but whitespace
JsonParse(text) ==
    LET r == ParseValue(text, 1) IN
    IF ~r.ok THEN Err(r.err)
    ELSE LET n == SkipWs(text, r.next) IN
         IF n <= Len(text) THEN Err(Unexpected(text, n).err)
         ELSE Ok(r.val)

\* parsed["root"]: the member of an object, null for anything else
JsonIndex(v, key) ==
    IF v.t = "object" /\ \E n \in 1..Len(v.members) : v.members[n].k = key
    THEN v.members[CHOOSE n \in 1..Len(v.members) : v.members[n].k = key].v
    ELSE JNull

\* variant: a number is rendered as a string
AsStrLoose(v) ==
    IF v.t = "string" THEN Some(v.s)
    ELSE IF v.t = "number" THEN Some(<<"1">>) ELSE NoneOpt

AsStr(v) == IF v.t = "string" THEN Some(v.s) ELSE NoneOpt

\* Option::ok_or
OkOr(o, e) == IF o.some THEN Ok(o.val) ELSE Err(e)

\* variant: the path is trimmed of one trailing blank or separator
PathBufFromTrimmed(s) ==
    [path |-> IF Len(s) > 0 /\ s[Len(s)] \in {" ", "/"}
              THEN SubSeq(s, 1, Len(s) - 1) ELSE s]

\* PathBuf::from(&str): the path owns a copy of the string's characters
PathBufFrom(s) == [path |-> [n \in 1..Len(s) |-> s[n]]]

-----------------------------------------------------------------------------
(* The child process: what `cargo locate-project` (or its override) may do *)

\* standard outputs a child may print
OutRootA == <<LB, StrTok(RootKey), COLON, StrTok(PathA), RB>>
OutRootB == <<WS, LB, WS, StrTok(RootKey), WS, COLON, WS, StrTok(PathB), WS, RB, WS>>
OutOther == <<LB, StrTok(OtherKey), COLON, StrTok(PathA), RB>>
OutRootNum == <<LB, StrTok(RootKey), COLON, NUM, RB>>
OutRootNull == <<LB, StrTok(RootKey), COLON, NULLTOK, RB>>
OutRootBool == <<LB, StrTok(RootKey), COLON, TRUETOK, RB>>
OutRootArray == <<LB, StrTok(RootKey), COLON, LBK, StrTok(PathA), COMMA, NUM, RBK, RB>>
OutRootObject == <<LB, StrTok(RootKey), COLON, LB, StrTok(RootKey), COLON, StrTok(PathA), RB, RB>>
OutTwoMembers == <<LB, StrTok(OtherKey), COLON, NUM, COMMA, StrTok(RootKey), COLON, StrTok(<<>>), RB>>
OutDupRoot == <<LB, StrTok(RootKey), COLON, NUM, COMMA, StrTok(RootKey), COLON, StrTok(PathA), RB>>
OutBareString == <<StrTok(RootKey)>>
OutArrayOfRoot == <<LBK, StrTok(RootKey), RBK>>
OutNotJson == <<JUNK, WS, JUNK>>
OutTrailing == <<LB, StrTok(RootKey), COLON, StrTok(PathA), RB, JUNK>>
OutTrailingComma == <<LB, StrTok(RootKey), COLON, StrTok(PathA), COMMA, RB>>
OutBadUtf8 == <<LB, StrTok(RootKey), COLON, StrTok(PathA), RB, BAD>>
OutBadOnly == <<BAD, JUNK>>

StdoutVectors ==
    {OutRootA, OutRootB, OutOther, OutRootNum, OutRootNull, OutRootBool,
     OutRootArray, OutRootObject, OutTwoMembers, OutDupRoot, OutBareString,
     OutArrayOfRoot, OutNotJson, OutTrailing, OutTrailingComma, OutBadUtf8,
     OutBadOnly}

\* the standard outputs the child of the lifecycle specifications chooses from
ChildOutputs == {OutRootA, OutRootB, OutRootNum, OutOther, OutNotJson, OutBadUtf8}

\* the lexemes of the exhaustively enumerated standard outputs
TokAlphabet == {LB, RB, COLON, StrTok(RootKey), StrTok(PathB), NUM, BAD}
TokSeqs == UNION {[1..k -> TokAlphabet] : k \in 0..MaxTok}

\* standard-error contents: text, bytes that are not UTF-8, a NUL byte
StderrVectors == {<<"e", "r", "r">>, <<"e", "xFF", "x00", "e">>}

\* the causes with which the operating system refuses to start a program
SpawnErrorCodes == {"NotFound", "PermissionDenied"}

\* the empty name names no executable: starting it always fails
CanStart(prog) == prog # ""

-----------------------------------------------------------------------------
(* State *)

NoChild == [state |-> "none", ok |-> FALSE]

Locals0 ==
    /\ cargo = ""
    /\ spawnLog = <<>>
    /\ child = NoChild
    /\ childOut = <<>>
    /\ childErr = <<>>
    /\ outputRes = Unset
    /\ decoded = Unset
    /\ parsed = Unset
    /\ checks = <<>>

Init ==
    /\ env \in EnvValues
    /\ pc = "idle"
    /\ Locals0
    /\ result = Unset
    /\ memo = Unset

-----------------------------------------------------------------------------
(* The environment *)

\* the caller (the only thread) changes CARGO between two calls
SetEnv ==
    /\ pc = "idle"
    /\ \E e \in EnvValues \ {env} : env' = e
    /\ UNCHANGED <<pc, cargo, spawnLog, child, childOut, childErr, outputRes,
                   decoded, parsed, result, checks, memo>>

ChildWriteOut ==
    /\ child.state = "running"
    /\ childOut = <<>>
    /\ \E v \in ChildOutputs : childOut' = v
    /\ UNCHANGED <<env, pc, cargo, spawnLog, child, childErr, outputRes,
                   decoded, parsed, result, checks, memo>>

ChildWriteErr ==
    /\ child.state = "running"
    /\ childErr = <<>>
    /\ \E v \in StderrVectors : childErr' = v
    /\ UNCHANGED <<env, pc, cargo, spawnLog, child, childOut, outputRes,
                   decoded, parsed, result, checks, memo>>

ChildExit ==
    /\ child.state = "running"
    /\ \E ok \in BOOLEAN : child' = [state |-> "exited", ok |-> ok]
    /\ UNCHANGED <<env, pc, cargo, spawnLog, childOut, childErr, outputRes,
                   decoded, parsed, result, checks, memo>>

-----------------------------------------------------------------------------
(* locate_manifest (lines 19-34), one action per statement *)

\* line 20; the locals of the previous call are gone
Call ==
    /\ pc = "idle"
    /\ pc' = "spawn"
    /\ cargo' = ResolveCargo(env)
    /\ spawnLog' = <<>>
    /\ child' = NoChild
    /\ childOut' = <<>>
    /\ childErr' = <<>>
    /\ outputRes' = Unset
    /\ decoded' = Unset
    /\ parsed' = Unset
    /\ checks' = <<>>
    /\ UNCHANGED <<env, result, memo>>

\* variant: a failed spawn is tried once more
SpawnFailRetry ==
    /\ pc = "spawn"
    /\ spawnLog' = Append(spawnLog, [prog |-> cargo, args |-> LocateProjectArgs])
    /\ \E code \in SpawnErrorCodes :
          /\ ~CanStart(cargo) => code = "NotFound"
          /\ outputRes' = Err(IoError(code))
          /\ IF Len(spawnLog) = 0
             THEN /\ pc' = "spawn"
                  /\ UNCHANGED <<result, checks>>
             ELSE /\ result' = Err(FromIo(IoError(code)))
                  /\ checks' = Append(checks, "spawn")
                  /\ pc' = "done"
    /\ UNCHANGED <<env, cargo, child, childOut, childErr, decoded, parsed, memo>>

\* lines 21-23, the program cannot be started: `?` returns the io::Error
SpawnFail ==
    /\ pc = "spawn"
    /\ spawnLog' = Append(spawnLog, [prog |-> cargo, args |-> LocateProjectArgs])
    /\ \E code \in SpawnErrorCodes :
          /\ ~CanStart(cargo) => code = "NotFound"
          /\ outputRes' = Err(IoError(code))
          /\ result' = Err(FromIo(IoError(code)))
    /\ checks' = Append(checks, "spawn")
    /\ pc' = "done"
    /\ UNCHANGED <<env, cargo, child, childOut, childErr, decoded, parsed, memo>>

\* lines 21-23, the program starts
SpawnOk ==
    /\ pc = "spawn"
    /\ CanStart(cargo)
    /\ spawnLog' = Append(spawnLog, [prog |-> cargo, args |-> LocateProjectArgs])
    /\ child' = [state |-> "running", ok |-> FALSE]
    /\ pc' = "wait"
    /\ UNCHANGED <<env, cargo, childOut, childErr, outputRes, decoded, parsed,
                   result, checks, memo>>

\* variant: the pipes are read without waiting for the child
CollectEarly ==
    /\ pc = "wait"
    /\ child.state # "none"
    /\ outputRes' = Ok([status_ok |-> child.ok, stdout |-> childOut,
                        stderr |-> childErr])
    /\ checks' = Append(checks, "spawn")
    /\ pc' = "status"
    /\ UNCHANGED <<env, cargo, spawnLog, child, childOut, childErr, decoded,
                   parsed, result, memo>>

\* line 23: output() returns once the child has exited and both pipes are drained
Collect ==
    /\ pc = "wait"
    /\ child.state = "exited"
    /\ outputRes' = Ok([status_ok |-> child.ok, stdout |-> childOut,
                        stderr |-> childErr])
    /\ checks' = Append(checks, "spawn")
    /\ pc' = "status"
    /\ UNCHANGED <<env, cargo, spawnLog, child, childOut, childErr, decoded,
                   parsed, result, memo>>

\* variant: the exit status is not looked at
CheckStatusSkipped ==
    /\ pc = "status"
    /\ checks' = Append(checks, "status")
    /\ pc' = "decode"
    /\ UNCHANGED <<env, cargo, spawnLog, child, childOut, childErr, outputRes,
                   decoded, parsed, result, memo>>

\* lines 24-28
CheckStatus ==
    /\ pc = "status"
    /\ checks' = Append(checks, "status")
    /\ IF ~outputRes.val.status_ok
       THEN /\ result' = Err(CargoExecution(outputRes.val.stderr))
            /\ pc' = "done"
       ELSE /\ pc' = "decode"
            /\ UNCHANGED result
    /\ UNCHANGED <<env, cargo, spawnLog, child, childOut, childErr, outputRes,
                   decoded, parsed, memo>>

\* line 30
Decode ==
    /\ pc = "decode"
    /\ checks' = Append(checks, "utf8")
    /\ decoded' = StringFromUtf8(outputRes.val.stdout)
    /\ IF ~decoded'.ok
       THEN /\ result' = Err(FromUtf8Err(decoded'.err))
            /\ pc' = "done"
       ELSE /\ pc' = "parse"
            /\ UNCHANGED result
    /\ UNCHANGED <<env, cargo, spawnLog, child, childOut, childErr, outputRes,
                   parsed, memo>>

\* line 31
Parse ==
    /\ pc = "parse"
    /\ checks' = Append(checks, "json")
    /\ parsed' = JsonParse(decoded.val)
    /\ IF ~parsed'.ok
       THEN /\ result' = Err(FromJsonErr(parsed'.err))
            /\ pc' = "done"
       ELSE /\ pc' = "root"
            /\ UNCHANGED result
    /\ UNCHANGED <<env, cargo, spawnLog, child, childOut, childErr, outputRes,
                   decoded, memo>>

\* variant: a path found by an earlier call is kept and returned again
RootCached ==
    /\ pc = "root"
    /\ checks' = Append(checks, "root")
    /\ LET root == OkOr(AsStr(JsonIndex(parsed.val, RootKey)), NoRoot) IN
       result' = IF result # Unset /\ result.ok THEN result
                 ELSE IF root.ok THEN Ok([path |-> root.val]) ELSE Err(root.err)
    /\ pc' = "done"
    /\ UNCHANGED <<env, cargo, spawnLog, child, childOut, childErr, outputRes,
                   decoded, parsed, memo>>

\* lines 32-33
Root ==
    /\ pc = "root"
    /\ checks' = Append(checks, "root")
    /\ LET root == OkOr(AsStr(JsonIndex(parsed.val, RootKey)), NoRoot) IN
       result' = IF root.ok THEN Ok(PathBufFrom(root.val)) ELSE Err(root.err)
    /\ pc' = "done"
    /\ UNCHANGED <<env, cargo, spawnLog, child, childOut, childErr, outputRes,
                   decoded, parsed, memo>>

\* the caller has the result and may call again
Return ==
    /\ pc = "done"
    /\ pc' = "idle"
    /\ UNCHANGED <<env, cargo, spawnLog, child, childOut, childErr, outputRes,
                   decoded, parsed, result, checks, memo>>

Next ==
    \/ SetEnv
    \/ Call
    \/ SpawnFail
    \/ SpawnOk
    \/ ChildWriteOut
    \/ ChildWriteErr
    \/ ChildExit
    \/ Collect
    \/ CheckStatus
    \/ Decode
    \/ Parse
    \/ Root
    \/ Return

Spec == Init /\ [][Next]_vars

\* the thread inside locate_manifest keeps running; the child owes nothing
Fairness ==
    /\ WF_vars(Collect)
    /\ WF_vars(CheckStatus)
    /\ WF_vars(Decode)
    /\ WF_vars(Parse)
    /\ WF_vars(Root)

SpecLive == Init /\ [][Next]_vars /\ Fairness

-----------------------------------------------------------------------------
(* An observer of sequences of calls: at a return it may note the call's  *)
(* inputs (CARGO, what output() delivered) and its result.                *)

ReturnRemember ==
    /\ pc = "done"
    /\ pc' = "idle"
    /\ memo' = [env |-> env, output |-> outputRes, result |-> result]
    /\ UNCHANGED <<env, cargo, spawnLog, child, childOut, childErr, outputRes,
                   decoded, parsed, result, checks>>

NextCalls == Next \/ ReturnRemember

SpecCalls == Init /\ [][NextCalls]_vars

-----------------------------------------------------------------------------
(* Lines 24-33 as a function of what output() delivered: every standard    *)
(* output of at most MaxTok lexemes, and the longer ones listed above.     *)

InitPure ==
    /\ env = EnvAbsent
    /\ pc = "status"
    /\ cargo = DefaultCargo
    /\ spawnLog = <<[prog |-> DefaultCargo, args |-> LocateProjectArgs]>>
    /\ \E ok \in BOOLEAN : child = [state |-> "exited", ok |-> ok]
    /\ childOut \in TokSeqs \cup StdoutVectors
    /\ childErr \in {<<>>} \cup StderrVectors
    /\ ~child.ok => childOut \in StdoutVectors
    /\ child.ok => childErr = <<>>
    /\ outputRes = Ok([status_ok |-> child.ok, stdout |-> childOut,
                       stderr |-> childErr])
    /\ decoded = Unset
    /\ parsed = Unset
    /\ checks = <<"spawn">>
    /\ result = Unset
    /\ memo = Unset

NextPure ==
    \/ CheckStatus
    \/ Decode
    \/ Parse
    \/ Root

SpecPure == InitPure /\ [][NextPure]_vars

-----------------------------------------------------------------------------
(* Properties *)

InCall == pc \in {"spawn", "wait", "status", "decode", "parse", "root", "done"}
Spawned == InCall /\ Len(spawnLog) > 0
Returned == pc = "done"
Captured == Returned /\ outputRes.ok
ExitedOk == Captured /\ outputRes.val.status_ok
ParsedOk == ExitedOk /\ decoded # Unset /\ decoded.ok /\ parsed # Unset /\ parsed.ok

\* the members of a parsed object named `root`
RootMembers(v) ==
    IF v.t = "object"
    THEN {v.members[n] : n \in {m \in 1..Len(v.members) : v.members[m].k = RootKey}}
    ELSE {}
HasStringRoot(v) == \E m \in RootMembers(v) : m.v.t = "string"

\* C1: when the tool exits successfully and prints valid UTF-8 that parses as
\* JSON with a string member `root`, the call returns Ok with a path that is
\* exactly the content of that string: blanks, `..` and trailing separators
\* are kept, and the empty string gives the empty path.
C1_ExactRootPath ==
    /\ (ParsedOk /\ HasStringRoot(parsed.val)) =>
          \E m \in RootMembers(parsed.val) : result = Ok([path |-> m.v.s])
    /\ ExitedOk =>
          /\ childOut = OutRootA => result = Ok([path |-> PathA])
          /\ childOut = OutRootB => result = Ok([path |-> PathB])
          /\ childOut = OutDupRoot => result = Ok([path |-> PathA])
          /\ childOut = OutTwoMembers => result = Ok([path |-> <<>>])
          /\ childOut = <<LB, StrTok(RootKey), COLON, StrTok(RootKey), RB>>
                => result = Ok([path |-> RootKey])

C1_Witness ==
    /\ ParsedOk
    /\ childOut = <<LB, StrTok(RootKey), COLON, StrTok(PathB), RB>>
    /\ result = Ok([path |-> PathB])

\* C2 as stated: whenever CARGO is set at call time, whatever its value, the
\* spawned executable is that value.
C2_Original ==
    (Spawned /\ env.kind # "absent") => spawnLog[1].prog = env.val

\* C2 amended: whenever CARGO is set at call time to a value that is valid
\* Unicode (the empty string included), the spawned executable is that value
\* and not the default `cargo`; a value that is not valid Unicode is ignored
\* and `cargo` is spawned.
C2_UnicodeOverride ==
    Spawned =>
       /\ env.kind = "unicode" => spawnLog[1].prog = env.val
       /\ env.kind = "notunicode" => spawnLog[1].prog = DefaultCargo
       /\ spawnLog[1].args = LocateProjectArgs

C2_Witness ==
    /\ Returned
    /\ env = EnvUnicode(StubCargo)
    /\ spawnLog[1].prog = StubCargo
    /\ result = Ok([path |-> PathA])

\* C3 as stated: when CARGO is absent or set to the empty string, `cargo
\* locate-project` is spawned.
C3_Original ==
    (Spawned /\ (env.kind = "absent" \/ env = EnvUnicode(""))) =>
       /\ spawnLog[1].prog = DefaultCargo
       /\ spawnLog[1].args = LocateProjectArgs

\* C3 amended: when CARGO is absent, `cargo locate-project` is spawned, and
\* absence is never itself a cause of an error: no call returns before that
\* spawn, and an Io error is the spawn's own failure.  An empty value is not a
\* fallback case: the empty name is spawned as it is.
C3_AbsentFallsBack ==
    /\ (InCall /\ env.kind = "absent") =>
          /\ pc # "spawn" => Len(spawnLog) = 1
          /\ Spawned => /\ spawnLog[1].prog = DefaultCargo
                        /\ spawnLog[1].args = LocateProjectArgs
          /\ (Returned /\ ~result.ok /\ result.err.kind = "Io") =>
                outputRes = Err(result.err.cause)
    /\ (Spawned /\ env = EnvUnicode("")) => spawnLog[1].prog = ""

C3_Witness ==
    /\ Returned
    /\ env.kind = "absent"
    /\ spawnLog[1].prog = DefaultCargo
    /\ result.ok

\* C4: whenever the tool exits with a failure status, the call returns
\* CargoExecution whose stderr is exactly what the child wrote to standard
\* error, whatever it wrote to standard error and to standard output.
C4_StderrVerbatim ==
    (Captured /\ ~outputRes.val.status_ok) =>
       result = Err([kind |-> "CargoExecution", stderr |-> childErr])

C4_Witness ==
    /\ Captured
    /\ ~child.ok
    /\ childErr = <<"e", "xFF", "x00", "e">>
    /\ childOut = OutBadUtf8
    /\ result.err.kind = "CargoExecution"

\* C5: when the tool exits successfully and its output parses as JSON, the
\* call returns NoRoot exactly when the value has no string member `root`; an
\* absent root and a root that is a number, null, a boolean, an array or an
\* object give the same result, and no other error kind.
C5_NoRootIffNoStringRoot ==
    /\ ParsedOk =>
          /\ (result = Err(NoRoot)) <=> ~HasStringRoot(parsed.val)
          /\ result.ok \/ result = Err(NoRoot)
    /\ (ExitedOk /\ childOut \in {OutOther, OutRootNum, OutRootNull, OutRootBool,
                                  OutRootArray, OutRootObject, OutBareString,
                                  OutArrayOfRoot, <<LB, RB>>, <<NUM>>})
          => result = Err(NoRoot)

C5_Witness ==
    /\ ParsedOk
    /\ childOut = OutRootArray
    /\ parsed.val.members[1].v.t = "array"
    /\ result = Err(NoRoot)

CheckOrder == <<"spawn", "status", "utf8", "json", "root">>

\* what the order of line 23, 24, 30, 31, 32 makes of the call's inputs: the
\* kind of the first check that fails and the number of checks evaluated
FirstFailure ==
    IF ~outputRes.ok THEN [kind |-> "Io", n |-> 1]
    ELSE IF ~child.ok THEN [kind |-> "CargoExecution", n |-> 2]
    ELSE IF \E n \in 1..Len(childOut) : childOut[n] = BAD
         THEN [kind |-> "StringConversion", n |-> 3]
    ELSE IF ~JsonParse(childOut).ok THEN [kind |-> "ParseJson", n |-> 4]
    ELSE IF ~HasStringRoot(JsonParse(childOut).val) THEN [kind |-> "NoRoot", n |-> 5]
    ELSE [kind |-> "Ok", n |-> 5]

ResultKind(r) == IF r.ok THEN "Ok" ELSE r.err.kind

\* C6: the failure checks are evaluated in the order spawn, exit status,
\* UTF-8, JSON, root; the call returns the kind of the first one that fails
\* and evaluates none after it (a failing exit status with undecodable or
\* unparsable output gives CargoExecution), and every call returns a path or
\* exactly one of the five kinds.
C6_FirstFailingCheck ==
    /\ InCall => /\ Len(checks) <= Len(CheckOrder)
                 /\ checks = SubSeq(CheckOrder, 1, Len(checks))
    /\ Returned =>
          /\ ResultKind(result) = FirstFailure.kind
          /\ checks = SubSeq(CheckOrder, 1, FirstFailure.n)
          /\ ResultKind(result) \in ErrorKinds \cup {"Ok"}
          /\ (outputRes.ok /\ ~child.ok /\ childOut \in {OutBadUtf8, OutNotJson})
                => /\ result.err.kind = "CargoExecution"
                   /\ checks = <<"spawn", "status">>

C6_Witness ==
    /\ Returned
    /\ outputRes.ok
    /\ ~child.ok
    /\ childOut = OutBadUtf8
    /\ result.err.kind = "CargoExecution"
    /\ decoded = Unset

\* C7: every call spawns exactly one child, with the single argument
\* `locate-project`, on every path: before the spawn statement none, after
\* it one, and never a second one.
C7_ExactlyOneSpawn ==
    /\ Len(spawnLog) <= 1
    /\ pc = "spawn" => Len(spawnLog) = 0
    /\ (InCall /\ pc # "spawn") =>
          /\ Len(spawnLog) = 1
          /\ spawnLog[1] = [prog |-> cargo, args |-> <<"locate-project">>]

C7_Witness ==
    /\ Returned
    /\ ~outputRes.ok
    /\ result.err.kind = "Io"
    /\ Len(spawnLog) = 1

\* C8: two calls, anywhere in a sequence of calls, that see the same CARGO
\* and the same child behaviour (spawn outcome, exit status, standard output,
\* standard error) return equal results.
C8_NoCallToCallState ==
    (Returned /\ memo # Unset /\ memo.env = env /\ memo.output = outputRes)
       => result = memo.result

C8_Witness ==
    /\ Returned
    /\ memo # Unset
    /\ memo.env = env
    /\ memo.output = outputRes
    /\ outputRes.ok
    /\ outputRes.val.stdout = OutRootNum
    /\ result = Err(NoRoot)

\* C9: an error derived from a lower-layer failure wraps it and source()
\* returns it (Io, StringConversion, ParseJson); source() is none for
\* CargoExecution and NoRoot; an io::Error becomes only Io, a FromUtf8Error
\* only StringConversion and a json::Error only ParseJson.
C9_SourceIsWrappedCause ==
    (Returned /\ ~result.ok) =>
       IF ~outputRes.ok
       THEN /\ outputRes.err.ty = "io::Error"
            /\ result.err.kind = "Io"
            /\ Source(result.err) = Some(outputRes.err)
       ELSE IF ~outputRes.val.status_ok
       THEN /\ result.err.kind = "CargoExecution"
            /\ Source(result.err) = NoneOpt
       ELSE IF ~decoded.ok
       THEN /\ decoded.err.ty = "FromUtf8Error"
            /\ result.err.kind = "StringConversion"
            /\ Source(result.err) = Some(decoded.err)
       ELSE IF ~parsed.ok
       THEN /\ parsed.err.ty = "json::Error"
            /\ result.err.kind = "ParseJson"
            /\ Source(result.err) = Some(parsed.err)
       ELSE /\ result.err.kind = "NoRoot"
            /\ Source(result.err) = NoneOpt

C9_Witness ==
    /\ Returned
    /\ ~result.ok
    /\ result.err.kind = "StringConversion"
    /\ Source(result.err) = Some(decoded.err)
    /\ decoded.err.bytes = OutBadUtf8

CapturedInFull ==
    (pc \in {"status", "decode", "parse", "root", "done"} /\ outputRes.ok) =>
       /\ child.state = "exited"
       /\ outputRes.val.status_ok = child.ok
       /\ outputRes.val.stdout = childOut
       /\ outputRes.val.stderr = childErr

\* C10: after a successful spawn the call holds no output, and so returns
\* nothing, before the child has exited and both streams are captured in
\* full; while the child runs the call stays where it waits (no timeout);
\* once the child has exited the call returns.
C10_Synchronous ==
    /\ []CapturedInFull
    /\ [][(pc = "wait" /\ child.state = "running") => pc' = "wait"]_vars
    /\ ((pc = "wait" /\ child.state = "exited") ~> (pc = "done"))

C10_Witness ==
    /\ Returned
    /\ outputRes.ok
    /\ child.state = "exited"
    /\ outputRes.val.stdout = OutRootB
    /\ outputRes.val.stderr = <<"e", "r", "r">>
    /\ result = Ok([path |-> PathB])

====
